---- MODULE Spec2Model ----
(***************************************************************************)
(* A model of rtsp-client-rs.                                              *)
(*                                                                         *)
(*  - src/src/main.rs: Session and send_basic_rtsp_request, the control    *)
(*    channel (specification Spec).                                        *)
(*  - src/examples/simple/src/main.rs: the RTP capture loop of main, which *)
(*    accumulates NAL unit payloads and hands them to the H264 decoder     *)
(*    (specification CaptureSpec, and FuCaptureSpec for a stream of FU-A   *)
(*    fragments), and main as a whole, from Session::new over the four     *)
(*    requests and the capture loop to stop (specification DriverSpec).    *)
(***************************************************************************)
EXTENDS Integers, Sequences, FiniteSets, TLC

VARIABLES
    \* ---- src/src/main.rs ----
    cseq,               \* Session.cseq
    wire,               \* requests written to Session.stream, in order
    call,               \* what the last call of send_basic_rtsp_request did
    okCalls,            \* number of calls that returned Ok
    errCalls,           \* number of calls that returned Err
    \* ---- src/examples/simple/src/main.rs ----
    pc,                 \* where main is: "new", the method to send next, "bind",
                        \* "connect", "recv", "stop", "done", "error", "panic"
    buf_rtp,            \* the receive buffer, indices RtpHeaderLen..RtpBufLen-1
    payload,            \* the NAL unit accumulation buffer
    sequence_started,   \* the flag of the same name
    arrived,            \* the datagrams received so far, with how each was handled
    decoded,            \* the buffers given to decoder.decode, in order
    decoderResult,      \* what the decoder answered: "none" before
    stopCalled,         \* rtsp.stop() was called
    control,            \* the methods main called rtsp.send with, in order
    answered,           \* how many of those calls returned a response
    playResponse,       \* <<the response to Play>>, <<>> before it
    udp                 \* the datagram socket: "none", "bound", "connected"

sessionVars == <<cseq, wire, call, okCalls, errCalls>>
captureVars == <<pc, buf_rtp, payload, sequence_started, arrived, decoded,
                 decoderResult, stopCalled>>
driverVars == <<control, answered, playResponse, udp>>
vars == <<cseq, wire, call, okCalls, errCalls,
          pc, buf_rtp, payload, sequence_started, arrived, decoded,
          decoderResult, stopCalled, control, answered, playResponse, udp>>

(***************************************************************************)
(* Bounds of the model.                                                    *)
(***************************************************************************)
\* calls of send_basic_rtsp_request on one session
MaxSends == 3
\* length of the response buffer (1024 in the source), scaled down
ReadBufLen == 2
\* datagrams received by the capture loop
MaxPackets == 4
\* length of buf_rtp (2048 in the source), scaled down
RtpBufLen == 15

(***************************************************************************)
(* Program constants.                                                      *)
(***************************************************************************)
\* Session::new: cseq: 1
InitialCseq == 1
\* buf_rtp[12], &buf_rtp[12..len]
RtpHeaderLen == 12
\* buf_rtp[13]
FuHeaderIndex == 13
\* &buf_rtp[14..len]
FuPayloadIndex == 14
\* *header_nal == 103u8
NalSps == 103
\* *header_nal == 124u8
NalFuA == 124

(***************************************************************************)
(* Sequences of bytes.                                                     *)
(***************************************************************************)
RECURSIVE SeqsUpTo(_, _)
SeqsUpTo(S, n) ==
    IF n = 0 THEN {<<>>}
    ELSE LET shorter == SeqsUpTo(S, n - 1)
         IN  shorter \cup {Append(s, x) : s \in {t \in shorter : Len(t) = n - 1}, x \in S}

Zeros(n) == [i \in 1..n |-> 0]

(***************************************************************************)
(* src/src/main.rs                                                         *)
(***************************************************************************)
Methods == {"OPTIONS", "DESCRIBE"}

server_addr == "192.168.86.138:554"

\* The bytes a peer may answer with: 'A', the two bytes of U+00E9, and a
\* byte that is valid nowhere in UTF-8.
RxBytes == {65, 195, 169, 255}

ReplacementChar == 65533

\* String::from_utf8_lossy over bytes below 0xE0: ASCII bytes stand for
\* themselves, a lead byte 0xC2..0xDF with a continuation byte makes one code
\* point, and every other byte is replaced by U+FFFD.
RECURSIVE Utf8Lossy(_)
Utf8Lossy(b) ==
    IF b = <<>> THEN <<>>
    ELSE LET h == Head(b) IN
         IF h < 128 THEN <<h>> \o Utf8Lossy(Tail(b))
         ELSE IF h \in 194..223 /\ Len(b) >= 2 /\ b[2] \in 128..191
              THEN <<(h - 192) * 64 + (b[2] - 128)>> \o Utf8Lossy(SubSeq(b, 3, Len(b)))
              ELSE <<ReplacementChar>> \o Utf8Lossy(Tail(b))

\* a request formatted with the number after the current one
FormatRequestNextCseq(method, addr, n) ==
    [method |-> method, target |-> addr, protocol |-> "RTSP/1.0", cseq |-> n + 1]

\* format!("{} {} RTSP/1.0\r\nCSeq: {}\r\n\r\n", method, sess.server_addr, sess.cseq)
FormatRequest(method, addr, n) ==
    [method |-> method, target |-> addr, protocol |-> "RTSP/1.0", cseq |-> n]

\* let mut buffer = [0; 1024];
NewBuffer == Zeros(ReadBufLen)

\* sess.stream.read(&mut buffer): the first Len(rx) bytes are overwritten
ReadInto(buffer, rx) ==
    [i \in 1..Len(buffer) |-> IF i <= Len(rx) THEN rx[i] ELSE buffer[i]]

\* a counter that skips a number on each send
NextCseqSkips(c) == c + 2

\* sess.cseq += 1 (a u32; at most MaxSends calls keep it far below 2^32)
NextCseq(c) == c + 1

\* (*String::from_utf8_lossy(&buffer)).to_string()
ResponseText(buffer, n) == Utf8Lossy(buffer)

\* no call yet. writes, reads: how often stream.write and stream.read were
\* called; writeOk, readOk: whether they returned Ok; rx: the bytes the read
\* received and n their number; result: "ok" or "err"; text: the String
\* returned.
NoCall ==
    [method |-> "", cseqBefore |-> 0, writes |-> 0, writeOk |-> FALSE,
     reads |-> 0, readOk |-> FALSE, rx |-> <<>>, n |-> 0,
     result |-> "none", text |-> <<>>]

\* stream.write fails: `?` returns the error before the read
SendWriteFails(method) ==
    /\ okCalls + errCalls < MaxSends
    /\ call' = [method |-> method, cseqBefore |-> cseq, writes |-> 1,
                writeOk |-> FALSE, reads |-> 0, readOk |-> FALSE,
                rx |-> <<>>, n |-> 0, result |-> "err", text |-> <<>>]
    /\ errCalls' = errCalls + 1
    /\ UNCHANGED <<cseq, wire, okCalls>>
    /\ UNCHANGED captureVars
    /\ UNCHANGED driverVars

\* stream.write succeeds, stream.read fails: `?` returns the error
SendReadFails(method) ==
    /\ okCalls + errCalls < MaxSends
    /\ wire' = Append(wire, FormatRequest(method, server_addr, cseq))
    /\ call' = [method |-> method, cseqBefore |-> cseq, writes |-> 1,
                writeOk |-> TRUE, reads |-> 1, readOk |-> FALSE,
                rx |-> <<>>, n |-> 0, result |-> "err", text |-> <<>>]
    /\ errCalls' = errCalls + 1
    /\ UNCHANGED <<cseq, okCalls>>
    /\ UNCHANGED captureVars
    /\ UNCHANGED driverVars

\* stream.write succeeds and stream.read returns Ok(Len(rx)), zero included
SendReturns(method, rx) ==
    /\ okCalls + errCalls < MaxSends
    /\ wire' = Append(wire, FormatRequest(method, server_addr, cseq))
    /\ cseq' = NextCseq(cseq)
    /\ LET buffer == ReadInto(NewBuffer, rx)
       IN  call' = [method |-> method, cseqBefore |-> cseq, writes |-> 1,
                    writeOk |-> TRUE, reads |-> 1, readOk |-> TRUE,
                    rx |-> rx, n |-> Len(rx), result |-> "ok",
                    text |-> ResponseText(buffer, Len(rx))]
    /\ okCalls' = okCalls + 1
    /\ UNCHANGED errCalls
    /\ UNCHANGED captureVars
    /\ UNCHANGED driverVars

\* send_basic_rtsp_request(&mut session, method)
send_basic_rtsp_request ==
    \E method \in Methods :
        \/ SendWriteFails(method)
        \/ SendReadFails(method)
        \/ \E rx \in SeqsUpTo(RxBytes, ReadBufLen) : SendReturns(method, rx)

(***************************************************************************)
(* src/examples/simple/src/main.rs: the control requests of main.          *)
(* A response text is a sequence of characters.                            *)
(***************************************************************************)
\* "200 OK"
Marker == <<"2", "0", "0", " ", "O", "K">>

\* the texts rtsp.send may return: a success, an error status, a success
\* cut short by the read, a status in lower case, and no text at all
Resp200 == <<"/", "1", ".", "0", " ", "2", "0", "0", " ", "O", "K", "\r">>
Resp454 == <<"/", "1", ".", "0", " ", "4", "5", "4">>
RespCut == <<"/", "1", ".", "0", " ", "2", "0", "0", " ", "O">>
RespLower == <<"2", "0", "0", " ", "o", "k">>
Responses == {Resp200, Resp454, RespCut, RespLower, <<>>}

\* a test that is satisfied by the status code alone
ContainsStatusOnly(text, pat) ==
    \E i \in 0..(Len(text) - 3) : SubSeq(text, i + 1, i + 3) = SubSeq(pat, 1, 3)

\* text.contains(pat)
Contains(text, pat) ==
    \E i \in 0..(Len(text) - Len(pat)) : SubSeq(text, i + 1, i + Len(pat)) = pat

\* the methods in the order main sends them
DriverOrder == <<"Options", "Describe", "Setup", "Play">>

\* a main that sends Setup before Describe
AfterSendSetupFirst(method, text) ==
    CASE method = "Options"  -> "Setup"
      [] method = "Setup"    -> "Describe"
      [] method = "Describe" -> "Play"
      [] method = "Play"     -> IF Contains(text, Marker) THEN "bind" ELSE "stop"

\* where main goes when rtsp.send(method).await? returned text: to the next
\* send, and after Play into the block of `if (&response).contains("200 OK")`
\* or past it
AfterSend(method, text) ==
    CASE method = "Options"  -> "Describe"
      [] method = "Describe" -> "Setup"
      [] method = "Setup"    -> "Play"
      [] method = "Play"     -> IF Contains(text, Marker) THEN "bind" ELSE "stop"

\* main after the PLAY response held "200 OK" and the socket was bound and
\* connected: buf_rtp = [0u8; 2048], payload = Vec::new(),
\* sequence_started = false
CaptureStart ==
    /\ pc = "recv"
    /\ buf_rtp = [i \in RtpHeaderLen..(RtpBufLen - 1) |-> 0]
    /\ payload = <<>>
    /\ sequence_started = FALSE
    /\ arrived = <<>>
    /\ decoded = <<>>
    /\ decoderResult = "none"
    /\ stopCalled = FALSE
    /\ control = DriverOrder
    /\ answered = 4
    /\ playResponse = <<Resp200>>
    /\ udp = "connected"

\* Session::new(server_addr, stream)
SessionNew ==
    /\ cseq = InitialCseq
    /\ wire = <<>>
    /\ call = NoCall
    /\ okCalls = 0
    /\ errCalls = 0

Init == SessionNew /\ CaptureStart

Next == send_basic_rtsp_request

Spec == Init /\ [][Next]_vars

(***************************************************************************)
(* src/examples/simple/src/main.rs: the capture loop.                      *)
(*                                                                         *)
(* A datagram is [len, data]: its length and its bytes from index          *)
(* RtpHeaderLen on (data has domain RtpHeaderLen..len-1). The loop never   *)
(* reads an index below RtpHeaderLen, so the RTP header bytes are left out.*)
(***************************************************************************)
\* the values a datagram may carry at index i: at index 12 the SPS header,
\* the FU-A indicator and another NAL header; at index 13 the FU header of an
\* IDR fragment; one payload byte beyond
ByteAt(i) ==
    IF i = RtpHeaderLen THEN {NalSps, NalFuA, 65}
    ELSE IF i = FuHeaderIndex THEN {5}
    ELSE {66}

AllBytes == UNION {ByteAt(i) : i \in RtpHeaderLen..FuPayloadIndex}

\* a 10 byte datagram, and every length from the bare RTP header up to the
\* receive buffer's
PacketLens == {10} \cup (RtpHeaderLen..RtpBufLen)

Packets ==
    UNION {
        {[len |-> n, data |-> d] :
            d \in {f \in [RtpHeaderLen..(n - 1) -> AllBytes] :
                      \A i \in RtpHeaderLen..(n - 1) : f[i] \in ByteAt(i)}}
        : n \in PacketLens}

\* udp_stream.recv(&mut buf_rtp): the first len bytes are overwritten, the
\* rest of the buffer keeps what it held
Recv(buf, pkt) ==
    [i \in DOMAIN buf |-> IF i < pkt.len THEN pkt.data[i] ELSE buf[i]]

\* let header_nal = &buf_rtp[12];
HeaderNal(buf) == buf[RtpHeaderLen]

\* which branches header_nal takes: *header_nal == 103u8, == 124u8, else
UnitType(header_nal) ==
    IF header_nal = NalSps THEN "StartOfGroup"
    ELSE IF header_nal = NalFuA THEN "Fragment"
    ELSE "Complete"

\* a fragment branch that forgets the two bytes of FU-A headers
PayloadOffsetKeepsFuHeader(header_nal) == RtpHeaderLen

\* the start of the slice appended: &buf_rtp[14..len] or &buf_rtp[12..len]
PayloadOffset(header_nal) ==
    IF header_nal = NalFuA THEN FuPayloadIndex ELSE RtpHeaderLen

\* let header_fu = &buf_rtp[13];
HeaderFu(buf) == buf[FuHeaderIndex]

\* *header_fu == 133u8 || *header_fu == 69u8 || (*header_fu == 5u8)
IsIdrFragment(header_fu) == header_fu \in {133, 69, 5}

\* a fragment branch that leaves the loop on the end marker of an IDR fragment
AfterAppendEndMarkerBreaks(header_nal, header_fu) ==
    IF header_nal = NalFuA /\ header_fu = 69 THEN "stop" ELSE "recv"

\* where the iteration goes after its append. In the fragment branch the
\* test of header_fu has an empty body (if *header_fu == 69u8 {}), so every
\* iteration that appended goes back to recv.
AfterAppend(header_nal, header_fu) ==
    IF header_nal = NalFuA /\ IsIdrFragment(header_fu) THEN "recv" ELSE "recv"

\* &buf_rtp[from..to] panics when from > to or to is beyond the buffer
SliceInRange(from, to) == from <= to /\ to <= RtpBufLen

\* &buf_rtp[from..to]
Slice(buf, from, to) == [k \in 1..(to - from) |-> buf[from + k - 1]]

\* a buffer that is overwritten by each slice instead of extended
ExtendReplaces(vec, slice) == slice

\* a buffer that takes no bytes until the sequence has started
ExtendOnceStarted(vec, slice) == IF sequence_started THEN vec \o slice ELSE vec

\* payload.extend_from_slice(slice)
ExtendFromSlice(vec, slice) == vec \o slice

\* if *header_nal == 103u8 { if sequence_started { decode; break }
IsFlush(header_nal, started) == header_nal = NalSps /\ started

\* ... else { sequence_started = true } }
StartedAfter(header_nal, started) == started \/ header_nal = NalSps

\* a flush without the break: the loop receives again
AfterBreakMissing == "recv"

\* break: the loop is left for the rtsp.stop() line
AfterBreak == "stop"

\* what decoder.decode answers: Ok(Some(yuv)), Ok(None), Err(e)
DecoderResults == {"yuv", "no_frame", "decode_error"}

\* the record of one datagram in arrived: started is sequence_started when it
\* was received, headerFrom tells whether buf_rtp[12] was a byte of this
\* datagram, outcome is "appended", "flushed", "decoder_new_failed" or "panic"
Handled(pkt, buf, outcome) ==
    [len |-> pkt.len, data |-> pkt.data,
     unitType |-> UnitType(HeaderNal(buf)),
     started |-> sequence_started,
     headerFrom |-> IF pkt.len > RtpHeaderLen THEN "packet" ELSE "stale",
     outcome |-> outcome]

\* udp_stream.recv(&mut buf_rtp).await? fails: main returns the error
RecvFails ==
    /\ pc = "recv"
    /\ Len(arrived) < MaxPackets
    /\ pc' = "error"
    /\ UNCHANGED <<buf_rtp, payload, sequence_started, arrived, decoded,
                   decoderResult, stopCalled>>
    /\ UNCHANGED sessionVars
    /\ UNCHANGED driverVars

\* an iteration that appends: header_nal is not an SPS header after the
\* sequence started, and the slice is in range
AppendPacket(pkt) ==
    /\ pc = "recv"
    /\ Len(arrived) < MaxPackets
    /\ LET buf == Recv(buf_rtp, pkt)
           h == HeaderNal(buf)
       IN  /\ ~IsFlush(h, sequence_started)
           /\ SliceInRange(PayloadOffset(h), pkt.len)
           /\ buf_rtp' = buf
           /\ sequence_started' = StartedAfter(h, sequence_started)
           /\ payload' = ExtendFromSlice(payload, Slice(buf, PayloadOffset(h), pkt.len))
           /\ arrived' = Append(arrived, Handled(pkt, buf, "appended"))
           /\ pc' = AfterAppend(h, HeaderFu(buf))
    /\ UNCHANGED <<decoded, decoderResult, stopCalled>>
    /\ UNCHANGED sessionVars
    /\ UNCHANGED driverVars

\* an iteration whose slice is out of range: the thread panics
SlicePanics(pkt) ==
    /\ pc = "recv"
    /\ Len(arrived) < MaxPackets
    /\ LET buf == Recv(buf_rtp, pkt)
           h == HeaderNal(buf)
       IN  /\ ~IsFlush(h, sequence_started)
           /\ ~SliceInRange(PayloadOffset(h), pkt.len)
           /\ buf_rtp' = buf
           /\ sequence_started' = StartedAfter(h, sequence_started)
           /\ arrived' = Append(arrived, Handled(pkt, buf, "panic"))
    /\ pc' = "panic"
    /\ UNCHANGED <<payload, decoded, decoderResult, stopCalled>>
    /\ UNCHANGED sessionVars
    /\ UNCHANGED driverVars

\* an SPS header after the sequence started, and Decoder::new()? fails:
\* main returns the error
DecoderNewFails(pkt) ==
    /\ pc = "recv"
    /\ Len(arrived) < MaxPackets
    /\ LET buf == Recv(buf_rtp, pkt)
       IN  /\ IsFlush(HeaderNal(buf), sequence_started)
           /\ buf_rtp' = buf
           /\ arrived' = Append(arrived, Handled(pkt, buf, "decoder_new_failed"))
    /\ pc' = "error"
    /\ UNCHANGED <<payload, sequence_started, decoded, decoderResult, stopCalled>>
    /\ UNCHANGED sessionVars
    /\ UNCHANGED driverVars

\* an SPS header after the sequence started: decoder.decode(payload), break
Flush(pkt, result) ==
    /\ pc = "recv"
    /\ Len(arrived) < MaxPackets
    /\ LET buf == Recv(buf_rtp, pkt)
       IN  /\ IsFlush(HeaderNal(buf), sequence_started)
           /\ buf_rtp' = buf
           /\ arrived' = Append(arrived, Handled(pkt, buf, "flushed"))
    /\ decoded' = Append(decoded, payload)
    /\ decoderResult' = result
    /\ pc' = AfterBreak
    /\ UNCHANGED <<payload, sequence_started, stopCalled>>
    /\ UNCHANGED sessionVars
    /\ UNCHANGED driverVars

\* println!("Stopping RTSP: {}", rtsp.stop()); Ok(())
Stop ==
    /\ pc = "stop"
    /\ stopCalled' = TRUE
    /\ pc' = "done"
    /\ UNCHANGED <<buf_rtp, payload, sequence_started, arrived, decoded, decoderResult>>
    /\ UNCHANGED sessionVars
    /\ UNCHANGED driverVars

CaptureNext ==
    \/ RecvFails
    \/ \E pkt \in Packets : AppendPacket(pkt)
    \/ \E pkt \in Packets : SlicePanics(pkt)
    \/ \E pkt \in Packets : DecoderNewFails(pkt)
    \/ \E pkt \in Packets, result \in DecoderResults : Flush(pkt, result)
    \/ Stop

CaptureSpec == Init /\ [][CaptureNext]_vars

\* the FU headers a fragment may carry: start, end and middle of an IDR
\* fragment (133, 69, 5) and the middle of a fragment of another NAL type
FuHeaders == {133, 69, 5, 1}

\* the datagrams of a stream of fragments: FU-A datagrams with each FU
\* header, with and without payload bytes after it, and the 13 byte
\* datagrams with each NAL header
FuPackets ==
    {[len |-> n,
      data |-> [i \in RtpHeaderLen..(n - 1) |->
                  IF i = RtpHeaderLen THEN NalFuA
                  ELSE IF i = FuHeaderIndex THEN fu ELSE 66]] :
        n \in FuPayloadIndex..RtpBufLen, fu \in FuHeaders}
    \cup {[len |-> 13, data |-> [i \in RtpHeaderLen..RtpHeaderLen |-> b]] :
            b \in {NalSps, NalFuA, 65}}

\* the capture loop on a stream of fragments
FuCaptureNext ==
    \/ RecvFails
    \/ \E pkt \in FuPackets : AppendPacket(pkt)
    \/ \E pkt \in FuPackets : SlicePanics(pkt)
    \/ \E pkt \in FuPackets : DecoderNewFails(pkt)
    \/ \E pkt \in FuPackets, result \in DecoderResults : Flush(pkt, result)
    \/ Stop

FuCaptureSpec == Init /\ [][FuCaptureNext]_vars

\* main before Session::new: nothing sent, no socket, the loop's locals as
\* they are created
DriverStart ==
    /\ pc = "new"
    /\ buf_rtp = [i \in RtpHeaderLen..(RtpBufLen - 1) |-> 0]
    /\ payload = <<>>
    /\ sequence_started = FALSE
    /\ arrived = <<>>
    /\ decoded = <<>>
    /\ decoderResult = "none"
    /\ stopCalled = FALSE
    /\ control = <<>>
    /\ answered = 0
    /\ playResponse = <<>>
    /\ udp = "none"

loopVars == <<buf_rtp, payload, sequence_started, arrived, decoded,
              decoderResult, stopCalled>>

\* Session::new("192.168.86.138:554".to_string())? returns the session
DriverSessionNew ==
    /\ pc = "new"
    /\ pc' = DriverOrder[1]
    /\ UNCHANGED <<loopVars, driverVars, sessionVars>>

\* Session::new(..)? fails: main returns the error
DriverSessionNewFails ==
    /\ pc = "new"
    /\ pc' = "error"
    /\ UNCHANGED <<loopVars, driverVars, sessionVars>>

\* rtsp.send(method).await? returns text
DriverSendReturns(method, text) ==
    /\ pc = method
    /\ control' = Append(control, method)
    /\ answered' = answered + 1
    /\ playResponse' = IF method = "Play" THEN <<text>> ELSE playResponse
    /\ pc' = AfterSend(method, text)
    /\ UNCHANGED <<loopVars, udp, sessionVars>>

\* rtsp.send(method).await? fails: main returns the error
DriverSendFails(method) ==
    /\ pc = method
    /\ control' = Append(control, method)
    /\ pc' = "error"
    /\ UNCHANGED <<loopVars, answered, playResponse, udp, sessionVars>>

\* UdpSocket::bind("0.0.0.0:4588").await?
UdpBind ==
    /\ pc = "bind"
    /\ udp' = "bound"
    /\ pc' = "connect"
    /\ UNCHANGED <<loopVars, control, answered, playResponse, sessionVars>>

\* UdpSocket::bind(..).await? fails: main returns the error
UdpBindFails ==
    /\ pc = "bind"
    /\ pc' = "error"
    /\ UNCHANGED <<loopVars, driverVars, sessionVars>>

\* udp_stream.connect("192.168.86.138:6600").await?
UdpConnect ==
    /\ pc = "connect"
    /\ udp' = "connected"
    /\ pc' = "recv"
    /\ UNCHANGED <<loopVars, control, answered, playResponse, sessionVars>>

\* udp_stream.connect(..).await? fails: main returns the error
UdpConnectFails ==
    /\ pc = "connect"
    /\ pc' = "error"
    /\ UNCHANGED <<loopVars, driverVars, sessionVars>>

\* main of the example, from Session::new to Ok(())
DriverNext ==
    \/ DriverSessionNew
    \/ DriverSessionNewFails
    \/ \E i \in 1..Len(DriverOrder), text \in Responses :
            DriverSendReturns(DriverOrder[i], text)
    \/ \E i \in 1..Len(DriverOrder) : DriverSendFails(DriverOrder[i])
    \/ UdpBind
    \/ UdpBindFails
    \/ UdpConnect
    \/ UdpConnectFails
    \/ CaptureNext

DriverInit == SessionNew /\ DriverStart

DriverSpec == DriverInit /\ [][DriverNext]_vars

(***************************************************************************)
(* Claims about send_basic_rtsp_request (specification Spec).              *)
(***************************************************************************)

\* C1: on a session where no call failed, after N calls that returned Ok the
\* sequence counter is 1 + N; it is 1 before the first call.
C1_CseqCountsSends ==
    errCalls = 0 => cseq = 1 + okCalls

\* at least two calls returned Ok, none failed
C1_Witness ==
    errCalls = 0 /\ okCalls >= 2 /\ call.result = "ok"

\* C2: as stated: once the write of a call succeeded the counter is one
\* higher than before the call, also when the read that followed failed.
C2_IncrementedOnceWritten ==
    (call.result # "none" /\ call.writeOk) => cseq = call.cseqBefore + 1

\* C3: as stated: no two requests written to the connection carry the same
\* CSeq.
C3_NoCseqWrittenTwice ==
    \A i, j \in 1..Len(wire) : i # j => wire[i].cseq # wire[j].cseq

\* C4: as stated: a call whose read yields zero bytes or an error returns an
\* error, having written once and read once.
C4_EmptyOrFailedReadFails ==
    (call.reads >= 1 /\ (~call.readOk \/ call.n = 0)) =>
        call.result = "err" /\ call.writes = 1 /\ call.reads = 1

\* C5: as stated: the text a call returns is the lossy decoding of exactly
\* the bytes its read received.
C5_TextIsReceivedBytes ==
    call.result = "ok" => call.text = Utf8Lossy(call.rx)

\* C18: a call whose write fails returns an error without a read and leaves
\* the sequence counter and what was written unchanged, and the next request
\* written carries the sequence number and the address the failed call had.
C18_FailedWriteLeavesSession ==
    [][/\ (errCalls' # errCalls /\ ~call'.writeOk) =>
            /\ call'.result = "err"
            /\ call'.reads = 0
            /\ cseq' = cseq
            /\ wire' = wire
       /\ (call.result = "err" /\ ~call.writeOk /\ wire' # wire) =>
            /\ Len(wire') = Len(wire) + 1
            /\ wire'[Len(wire')].cseq = call.cseqBefore
            /\ wire'[Len(wire')].target = server_addr]_vars

\* a request was written right after a call whose write failed
C18_Witness ==
    /\ errCalls = 1
    /\ okCalls = 1
    /\ call.result = "ok"
    /\ call.cseqBefore = 1
    /\ Len(wire) = 1


(***************************************************************************)
(* Claims about the capture loop (specification CaptureSpec).              *)
(* They are stated over the datagrams as they arrived, not over buf_rtp.   *)
(***************************************************************************)

\* the classification of a byte 12 as the claims give it
ClaimedClass(b) ==
    CASE b = 103 -> "StartOfGroup"
      [] b = 124 -> "Fragment"
      [] OTHER   -> "Complete"

\* the classification of a datagram by its own byte 12, if it has one
OwnClass(p) == IF p.len > 12 THEN ClaimedClass(p.data[12]) ELSE "Short"

\* the bytes [from, len) of a datagram
OwnBytes(p, from) == [k \in 1..(p.len - from) |-> p.data[from + k - 1]]

\* what a datagram of class c adds to the buffer: bytes [14, len) of a
\* Fragment, bytes [12, len) of any other
Remainder(p, c) == IF c = "Fragment" THEN OwnBytes(p, 14) ELSE OwnBytes(p, 12)

RECURSIVE Concat(_)
Concat(ss) == IF ss = <<>> THEN <<>> ELSE Head(ss) \o Concat(Tail(ss))

\* C6: as stated: every datagram received is handled under the
\* classification of its own byte 12.
C6_ClassifiedByOwnByte ==
    \A i \in 1..Len(arrived) :
        /\ arrived[i].len > 12
        /\ arrived[i].unitType = ClaimedClass(arrived[i].data[12])

\* the stream of C7: a StartOfGroup datagram, Fragment and Complete
\* datagrams, and a second StartOfGroup datagram on which the decoder ran
C7_Stream ==
    /\ Len(arrived) >= 2
    /\ OwnClass(arrived[1]) = "StartOfGroup"
    /\ \A i \in 2..(Len(arrived) - 1) : OwnClass(arrived[i]) \in {"Fragment", "Complete"}
    /\ OwnClass(arrived[Len(arrived)]) = "StartOfGroup"
    /\ arrived[Len(arrived)].outcome = "flushed"

\* the Fragment and Complete remainders of the stream, in arrival order
C7_Middle ==
    Concat([i \in 1..(Len(arrived) - 2) |->
                Remainder(arrived[i + 1], OwnClass(arrived[i + 1]))])

\* only the first datagram has arrived, and it is a StartOfGroup
C7_AfterFirst ==
    Len(arrived) = 1 /\ OwnClass(arrived[1]) = "StartOfGroup" /\ pc = "recv"

\* C7: as stated: the buffer the decoder gets on the second StartOfGroup is
\* the Fragment and Complete remainders only, and the first StartOfGroup
\* only sets the flag and adds no bytes.
C7_OnlyMiddleDecoded ==
    /\ C7_Stream => decoded[1] = C7_Middle
    /\ C7_AfterFirst => sequence_started /\ payload = <<>>

\* C7, amended: the buffer the decoder gets on the second StartOfGroup is
\* bytes [12, len) of the first StartOfGroup datagram followed by the
\* Fragment and Complete remainders in arrival order; the first StartOfGroup
\* sets the flag and appends its bytes [12, len).
C7_FirstGroupHeaderAndMiddleDecoded ==
    /\ C7_Stream => decoded[1] = OwnBytes(arrived[1], 12) \o C7_Middle
    /\ C7_AfterFirst => sequence_started /\ payload = OwnBytes(arrived[1], 12)

\* StartOfGroup, a Fragment with a payload byte, a Complete, StartOfGroup
C7_Witness ==
    /\ C7_Stream
    /\ Len(arrived) = 4
    /\ OwnClass(arrived[2]) = "Fragment" /\ arrived[2].len > 14
    /\ OwnClass(arrived[3]) = "Complete"

\* C8: at every point the buffer is the concatenation, in arrival order, of
\* bytes [14, len) of each datagram appended as a Fragment and bytes
\* [12, len) of each datagram appended otherwise.
C8_BufferIsConcatenation ==
    LET appended == SelectSeq(arrived, LAMBDA p : p.outcome = "appended")
    IN  payload = Concat([i \in 1..Len(appended) |->
                            Remainder(appended[i], appended[i].unitType)])

\* three datagrams were appended, a Fragment with a payload byte before a
\* non-fragment one
C8_Witness ==
    /\ pc = "recv"
    /\ Len(arrived) >= 3
    /\ \E i, j \in 1..Len(arrived) :
        /\ i < j
        /\ arrived[i].unitType = "Fragment" /\ arrived[i].len > 14
        /\ arrived[j].unitType = "Complete" /\ arrived[j].len > 12
        /\ arrived[i].outcome = "appended" /\ arrived[j].outcome = "appended"

\* a datagram shorter than its classification needs
C9_Short(p) == p.len < 13 \/ (p.len < 14 /\ p.data[12] = 124)

\* C9: as stated: a datagram shorter than its classification needs fails as
\* malformed, and no byte beyond its length is read as its header.
C9_ShortPacketIsMalformed ==
    \A i \in 1..Len(arrived) :
        C9_Short(arrived[i]) =>
            arrived[i].outcome = "malformed" /\ arrived[i].headerFrom = "packet"

IsPrefix(a, b) == Len(a) <= Len(b) /\ a = SubSeq(b, 1, Len(a))

\* C12: every append comes before the decoder is given the buffer, and the
\* datagram that triggers the decoder adds nothing to what the decoder reads:
\* the decoder gets the buffer as it was before that datagram.
C12_NoAppendOnceDecoded ==
    [][/\ payload' # payload => decoded = <<>> /\ decoded' = <<>>
       /\ decoded' # decoded =>
            /\ decoded' = Append(decoded, payload)
            /\ payload' = payload]_vars

\* the decoder ran on a StartOfGroup datagram that carried bytes of its own
C12_Witness ==
    /\ Len(decoded) = 1
    /\ OwnClass(arrived[Len(arrived)]) = "StartOfGroup"
    /\ arrived[Len(arrived)].len > 13
    /\ Len(arrived) >= 3
    /\ pc = "done"

\* the stream is well formed: no datagram is shorter than its class needs
C16_WellFormed == \A i \in 1..Len(arrived) : ~C9_Short(arrived[i])

\* the number of StartOfGroup datagrams received
C16_Groups ==
    Cardinality({i \in 1..Len(arrived) : OwnClass(arrived[i]) = "StartOfGroup"})

\* main returned the error of udp_stream.recv
C16_RecvFailed ==
    /\ pc = "error"
    /\ arrived # <<>> => arrived[Len(arrived)].outcome # "decoder_new_failed"

\* C16: as stated, for a well formed stream: the loop is left only when a
\* receive failed or a second StartOfGroup datagram was received, and once
\* the second StartOfGroup datagram was received the loop is left for the
\* call of stop.
C16_EndsWithSecondGroupOrRecvError ==
    C16_WellFormed =>
        /\ pc # "recv" => C16_RecvFailed \/ C16_Groups >= 2
        /\ C16_Groups >= 2 => pc \in {"stop", "done"}

\* C17: as stated: once the decoder was given the buffer, the buffer is
\* empty.
C17_ClearedAtBoundary ==
    Len(decoded) >= 1 => payload = <<>>

\* C17, amended: the buffer is not cleared at the group boundary: once the
\* decoder was given the buffer, the buffer still holds those bytes; and in
\* every step the buffer keeps what it held and at most grows.
C17_KeptAtBoundary ==
    /\ [](Len(decoded) >= 1 => payload = decoded[1] /\ payload # <<>>)
    /\ [][IsPrefix(payload, payload')]_vars

\* the decoder was given a buffer of several datagrams
C17_Witness ==
    /\ Len(decoded) = 1
    /\ Len(arrived) = 4
    /\ Len(payload) >= 3
    /\ pc = "stop"

\* C19: the buffer the decoder is given is the concatenation, in arrival
\* order, of bytes [12, len) ([14, len) for a fragment) of every datagram
\* received before the one that triggered the decoder, whether it came
\* before the first StartOfGroup, was the first StartOfGroup or came after.
C19_EveryEarlierPacketDecoded ==
    Len(decoded) >= 1 =>
        /\ \A i \in 1..(Len(arrived) - 1) : arrived[i].outcome = "appended"
        /\ decoded[1] = Concat([i \in 1..(Len(arrived) - 1) |->
                                  Remainder(arrived[i], arrived[i].unitType)])

\* a Complete datagram before the first StartOfGroup, the first
\* StartOfGroup, a Fragment, and the StartOfGroup that triggers the decoder
C19_Witness ==
    /\ Len(decoded) = 1
    /\ Len(arrived) = 4
    /\ OwnClass(arrived[1]) = "Complete" /\ ~arrived[1].started
    /\ OwnClass(arrived[2]) = "StartOfGroup" /\ ~arrived[2].started
    /\ OwnClass(arrived[3]) = "Fragment" /\ arrived[3].len > 14
    /\ arrived[4].outcome = "flushed"

(***************************************************************************)
(* Claims about main of the example (specification DriverSpec).            *)
(***************************************************************************)

\* the response to Play holds the success marker: of the texts a send may
\* return, Resp200 alone does
C14_PlaySucceeded == playResponse # <<>> /\ playResponse[1] = Resp200

\* C13: the methods are sent in the order Options, Describe, Setup, Play;
\* each is sent only when all before it returned a response; after a send
\* that failed nothing more is sent and stop is not called; stop is called
\* only after the four responses, and nothing is sent after it.
C13_DriverOrder ==
    /\ [](/\ IsPrefix(control, <<"Options", "Describe", "Setup", "Play">>)
          /\ answered <= Len(control)
          /\ Len(control) <= answered + 1
          /\ Len(control) = answered + 1 => pc = "error" /\ ~stopCalled
          /\ stopCalled => answered = 4 /\ pc = "done")
    /\ [][(pc = "error" \/ stopCalled) => control' = control]_vars

\* the four methods were sent and answered, and stop was called
C13_Witness ==
    /\ control = <<"Options", "Describe", "Setup", "Play">>
    /\ answered = 4
    /\ stopCalled

\* C14: the socket is bound and datagrams are received only if the response
\* to Play holds "200 OK"; with any other response nothing is received, the
\* decoder is not called and main goes from Play to stop.
C14_CaptureGatedOnPlay ==
    /\ (\/ udp # "none"
        \/ arrived # <<>>
        \/ decoded # <<>>
        \/ pc \in {"bind", "connect", "recv", "panic"}) => C14_PlaySucceeded
    /\ (playResponse # <<>> /\ ~C14_PlaySucceeded) =>
            /\ pc \in {"stop", "done"}
            /\ udp = "none"
            /\ arrived = <<>>
            /\ decoded = <<>>
    /\ (C14_PlaySucceeded /\ pc \in {"stop", "done"}) => Len(decoded) = 1

\* Play was answered with a success cut short after "200 O", and main
\* stopped without a socket
C14_Witness ==
    /\ playResponse = <<RespCut>>
    /\ pc = "done"
    /\ stopCalled
    /\ udp = "none"

\* C15: as stated: when main has ended with an error of the capture flow
\* (after Play succeeded), stop was called.
C15_TeardownAfterFatalError ==
    (pc = "error" /\ C14_PlaySucceeded) => stopCalled

====
